---- MODULE Spec2Model ----
(***************************************************************************)
(* Model of the slope-aware grid pathfinder (PathfindingEngine, MinHeap)   *)
(* of lib/pathfinding.ts and of TerrainLoader.calculateSlope.              *)
(*                                                                         *)
(* Number representation.  The program computes in IEEE doubles; the model *)
(* computes in fixed point:                                                *)
(*   - an elevation e of the model stands for the real elevation e/2;      *)
(*   - a distance is in thousandths of a cell, rounded down;               *)
(*   - a slope is in thousandths of a degree;                              *)
(*   - a cost (g, h, f, moveCost) is in millionths.                        *)
(* Infinity is a value larger than every cost the model can produce.       *)
(***************************************************************************)
EXTENDS Integers, Sequences, FiniteSets, TLC

(* ---------------------------------------------------------------- bounds *)
GridW == 3
GridH == 2
MaxElev == 2

(* ------------------------------------------------------ program constants *)
DefaultMaxSlope == 30
DefaultSlopeWeight == 2
DefaultDistanceWeight == 1
Infinity == 1000000000
(* The value that stands for NaN: no cost reaches it *)
NaN == 2000000000

VARIABLES heightData, options, pc, start, goal,
          closed, inOpen, gScore, cameFrom, heap, nodesExplored,
          result, smoothIn, smoothed,
          startOptions, prev, updates, before,
          slopeQuery, slopeMap, loaded,
          rover, froundUp,
          manualMode, pressedKeys, clock

vars == <<heightData, options, pc, start, goal,
          closed, inOpen, gScore, cameFrom, heap, nodesExplored,
          result, smoothIn, smoothed,
          startOptions, prev, updates, before,
          slopeQuery, slopeMap, loaded,
          rover, froundUp,
          manualMode, pressedKeys, clock>>

(* History of the calls made on the engine: the options in effect when the   *)
(* running findPath was entered, the result of the call before a repeated    *)
(* one, the arguments of the updateOptions calls so far and the config just  *)
(* before the latest of them.                                                *)
historyVars == <<startOptions, prev, updates, before>>

(* Results of the slope queries and of the terrain loader *)
outputVars == <<slopeQuery, slopeMap, loaded>>

(* The simulator's view of the user and of time: the manual-mode checkbox,   *)
(* the keys held down, and the parity of the frames the clock has timed     *)
inputVars == <<manualMode, pressedKeys, clock>>

searchVars == <<closed, inOpen, gScore, cameFrom, heap, nodesExplored>>

(* ------------------------------------------------------------ arithmetic *)
Abs(n) == IF n < 0 THEN -n ELSE n

Max2(a, b) == IF a > b THEN a ELSE b

RECURSIVE SqrtBetween(_, _, _)
SqrtBetween(n, lo, hi) ==
    IF lo >= hi THEN lo
    ELSE LET mid == (lo + hi + 1) \div 2
         IN  IF mid * mid <= n THEN SqrtBetween(n, mid, hi)
                               ELSE SqrtBetween(n, lo, mid - 1)

(* Math.sqrt(n) of a small natural n, in thousandths, rounded down *)
SqrtMilliTable == [n \in 0..64 |-> SqrtBetween(n * 1000000, 0, 1000 * (n + 1))]

SqrtMilli(n) == IF n \in DOMAIN SqrtMilliTable THEN SqrtMilliTable[n]
                ELSE SqrtBetween(n * 1000000, 0, 1000 * (n + 1))

(* Math.ceil(Math.sqrt(n)) of a natural n: exact *)
CeilSqrt(n) == LET r == SqrtBetween(n, 0, n) IN IF r * r = n THEN r ELSE r + 1

(* Math.atan(k / (2 * Math.sqrt(dsq))) * (180 / Math.PI), k >= 0, in         *)
(* thousandths of a degree: the angle of a rise of k half-units over one      *)
(* orthogonal (dsq = 1) or one diagonal (dsq = 2) step.                       *)
AtanMilliDeg(k, dsq) ==
    IF dsq = 1
    THEN CASE k = 0 -> 0
           [] k = 1 -> 26565
           [] k = 2 -> 45000
           [] k = 3 -> 56310
           [] k = 4 -> 63435
           [] k = 5 -> 68199
           [] k = 200 -> 89427
           [] OTHER -> 71565
    ELSE CASE k = 0 -> 0
           [] k = 1 -> 19471
           [] k = 2 -> 35264
           [] k = 3 -> 46686
           [] k = 4 -> 54736
           [] k = 5 -> 60504
           [] k = 200 -> 89190
           [] OTHER -> 64761

(* ----------------------------------------------------------------- types *)
Pt(x, y) == [x |-> x, y |-> y]

(* Point.x/y of the grid *)
Cells(hd) == {Pt(x, y) : x \in 0..(hd.width - 1), y \in 0..(hd.height - 1)}

(* indexOf = (x, y) => y * width + x *)
indexOf(hd, x, y) == y * hd.width + x

(* x = idx % width, y = Math.floor(idx / width) *)
pointOf(hd, idx) == Pt(idx % hd.width, idx \div hd.width)

(* A field of an options object, or the default when it is absent *)
OptionOr(o, field, default) == IF field \in DOMAIN o THEN o[field] ELSE default

(* ------------------------------------------------------- PathfindingEngine *)
(* isValidPoint with the upper bounds off by one *)
isValidPoint_OffByOne(hd, p) ==
    /\ p.x >= 0 /\ p.x <= hd.width
    /\ p.y >= 0 /\ p.y <= hd.height

isValidPoint(hd, p) ==
    /\ p.x >= 0 /\ p.x < hd.width
    /\ p.y >= 0 /\ p.y < hd.height

DistSq(from, to) ==
    (to.x - from.x) * (to.x - from.x) + (to.y - from.y) * (to.y - from.y)

getDistance(from, to) == SqrtMilli(DistSq(from, to))

(* Signed: heightDiff = heightTo - heightFrom, no Math.abs *)
calculateSlope(hd, from, to) ==
    LET heightFrom == hd.data[from.y][from.x]
        heightTo   == hd.data[to.y][to.x]
        heightDiff == heightTo - heightFrom
        a == AtanMilliDeg(Abs(heightDiff), DistSq(from, to))
    IN  IF heightDiff < 0 THEN -a ELSE a

(* TerrainLoader.calculateSlope(height1, height2, distance) for a distance   *)
(* of one orthogonal (dsq = 1) or diagonal (dsq = 2) step                    *)
LoaderCalculateSlope(height1, height2, dsq) ==
    AtanMilliDeg(Abs(height1 - height2), dsq)

getMovementCost(hd, opt, from, to) ==
    LET distance == getDistance(from, to)
        slope    == calculateSlope(hd, from, to)
    IN  IF slope > opt.maxSlope * 1000
        THEN Infinity
        ELSE IF opt.maxSlope = 0
        THEN (* slope / 0: 0 / 0 is NaN, anything else an infinity; the sum *)
             (* with distanceCost is the same NaN or infinity               *)
             IF slope * opt.slopeWeight = 0 THEN NaN
             ELSE IF slope * opt.slopeWeight > 0 THEN Infinity
             ELSE -Infinity
        ELSE LET distanceCost == distance * 1000 * opt.distanceWeight
                 slopeCost    == (slope * 1000 * opt.slopeWeight) \div opt.maxSlope
             IN  distanceCost + slopeCost

(* false for Infinity, -Infinity and NaN *)
isFinite(v) == v > -Infinity /\ v < Infinity

heuristic(opt, from, to) == getDistance(from, to) * 1000 * opt.distanceWeight

(* Dirs without the diagonal directions *)
Dirs_OrthogonalOnly(opt) ==
    <<[dx |-> 0, dy |-> -1], [dx |-> 1, dy |-> 0], [dx |-> 0, dy |-> 1], [dx |-> -1, dy |-> 0]>>

(* Dirs with the diagonalMovement option ignored *)
Dirs_AlwaysDiagonal(opt) ==
    <<[dx |-> 0, dy |-> -1], [dx |-> 1, dy |-> 0], [dx |-> 0, dy |-> 1], [dx |-> -1, dy |-> 0],
      [dx |-> -1, dy |-> -1], [dx |-> 1, dy |-> -1], [dx |-> 1, dy |-> 1], [dx |-> -1, dy |-> 1]>>

(* The 4 orthogonal directions, then the 4 diagonal ones, in the code's order *)
Dirs(opt) ==
    <<[dx |-> 0, dy |-> -1], [dx |-> 1, dy |-> 0], [dx |-> 0, dy |-> 1], [dx |-> -1, dy |-> 0]>>
    \o (IF opt.diagonalMovement
        THEN <<[dx |-> -1, dy |-> -1], [dx |-> 1, dy |-> -1],
               [dx |-> 1, dy |-> 1], [dx |-> -1, dy |-> 1]>>
        ELSE <<>>)

(* ------------------------------------------------------------------ MinHeap *)
(* The heap's array is a sequence; the code's index i is position i + 1.      *)
(* A node is [x, y, g, h, f]; the code's parent field is written, never read. *)
compare(a, b) == a.f - b.f

Swap(data, i, j) == [data EXCEPT ![i + 1] = data[j + 1], ![j + 1] = data[i + 1]]

RECURSIVE bubbleUp(_, _)
bubbleUp(data, idx) ==
    IF idx > 0
    THEN LET parent == (idx - 1) \div 2
         IN  IF compare(data[idx + 1], data[parent + 1]) < 0
             THEN bubbleUp(Swap(data, idx, parent), parent)
             ELSE data
    ELSE data

RECURSIVE bubbleDown(_, _)
bubbleDown(data, idx) ==
    LET length == Len(data)
        left   == 2 * idx + 1
        right  == 2 * idx + 2
        s1 == IF left < length /\ compare(data[left + 1], data[idx + 1]) < 0
              THEN left ELSE idx
        smallest == IF right < length /\ compare(data[right + 1], data[s1 + 1]) < 0
                    THEN right ELSE s1
    IN  IF smallest # idx
        THEN bubbleDown(Swap(data, idx, smallest), smallest)
        ELSE data

heapPush(data, item) == bubbleUp(Append(data, item), Len(data))

(* pop: the array left behind; the popped entry is data[1] *)
heapPop(data) ==
    LET end  == data[Len(data)]
        rest == SubSeq(data, 1, Len(data) - 1)
    IN  IF Len(rest) > 0
        THEN bubbleDown([rest EXCEPT ![1] = end], 0)
        ELSE rest

(* findIndex: the first index whose entry is the cell (x, y), or -1 *)
findIndex(data, x, y) ==
    LET hits == {i \in 0..(Len(data) - 1) : data[i + 1].x = x /\ data[i + 1].y = y}
    IN  IF hits = {} THEN -1
        ELSE CHOOSE i \in hits : \A j \in hits : i <= j

(* decreaseIfBetter that replaces the entry and leaves it where it is *)
decreaseIfBetter_NoBubbleUp(data, x, y, node) ==
    LET idx == findIndex(data, x, y)
    IN  IF idx >= 0
        THEN [data EXCEPT ![idx + 1] = node]
        ELSE data

decreaseIfBetter(data, x, y, node) ==
    LET idx == findIndex(data, x, y)
    IN  IF idx >= 0
        THEN bubbleUp([data EXCEPT ![idx + 1] = node], idx)
        ELSE data

(* --------------------------------------------------------------- findPath *)
(* gScore is a Float32Array while a node's g is a double: a store into        *)
(* gScore rounds the value to the nearest float32.  Whole numbers of cost     *)
(* units are stored as they are.  Any other cost of this model (it has a      *)
(* square root or an arc tangent in it) is not a float32 and is stored one    *)
(* step away, a step standing for the rounding error, which is below the      *)
(* model's resolution.  Whether the nearest float32 lies above or below is    *)
(* not computable at this resolution: froundUp fixes it for a behaviour.      *)
fround(v) ==
    IF v % 1000000 = 0 THEN v
    ELSE IF froundUp THEN v + 1 ELSE v - 1

(* Relax without the test of the closed flag: a closed neighbour reached    *)
(* at a lower cost is reopened                                               *)
Relax_ReopenClosed(hd, opt, gl, cl, current, st, d) ==
    LET nx == current.x + d.dx
        ny == current.y + d.dy
        cIdx == indexOf(hd, current.x, current.y)
    IN  IF nx < 0 \/ nx >= hd.width \/ ny < 0 \/ ny >= hd.height THEN st
        ELSE LET nIdx == indexOf(hd, nx, ny)
                 moveCost == getMovementCost(hd, opt, current, Pt(nx, ny))
             IN  IF ~isFinite(moveCost) THEN st
                 ELSE LET tentativeG == current.g + moveCost
                      IN  IF tentativeG >= st.gScore[nIdx] THEN st
                          ELSE LET h == heuristic(opt, Pt(nx, ny), gl)
                                   f == tentativeG + h
                                   node == [x |-> nx, y |-> ny, g |-> tentativeG,
                                            h |-> h, f |-> f]
                               IN  [gScore   |-> [st.gScore EXCEPT ![nIdx] = fround(tentativeG)],
                                    cameFrom |-> [st.cameFrom EXCEPT ![nIdx] = cIdx],
                                    inOpen   |-> [st.inOpen EXCEPT ![nIdx] = 1],
                                    heap     |-> IF st.inOpen[nIdx] = 1
                                                 THEN decreaseIfBetter(st.heap, nx, ny, node)
                                                 ELSE heapPush(st.heap, node)]

(* One pass of the neighbour loop's body for direction d, on the search      *)
(* bookkeeping st = [gScore, cameFrom, inOpen, heap]                         *)
Relax(hd, opt, gl, cl, current, st, d) ==
    LET nx == current.x + d.dx
        ny == current.y + d.dy
        cIdx == indexOf(hd, current.x, current.y)
    IN  IF nx < 0 \/ nx >= hd.width \/ ny < 0 \/ ny >= hd.height THEN st
        ELSE LET nIdx == indexOf(hd, nx, ny)
             IN  IF cl[nIdx] = 1 THEN st
                 ELSE LET moveCost == getMovementCost(hd, opt, current, Pt(nx, ny))
                      IN  IF ~isFinite(moveCost) THEN st
                          ELSE LET tentativeG == current.g + moveCost
                               IN  IF tentativeG >= st.gScore[nIdx] THEN st
                                   ELSE LET h == heuristic(opt, Pt(nx, ny), gl)
                                            f == tentativeG + h
                                            node == [x |-> nx, y |-> ny, g |-> tentativeG,
                                                     h |-> h, f |-> f]
                                        IN  [gScore   |-> [st.gScore EXCEPT ![nIdx] = fround(tentativeG)],
                                             cameFrom |-> [st.cameFrom EXCEPT ![nIdx] = cIdx],
                                             inOpen   |-> [st.inOpen EXCEPT ![nIdx] = 1],
                                             heap     |-> IF st.inOpen[nIdx] = 1
                                                          THEN decreaseIfBetter(st.heap, nx, ny, node)
                                                          ELSE heapPush(st.heap, node)]

(* The neighbour loop: the loop body for dirs[i], then the rest of the loop *)
(* on the bookkeeping s it leaves                                           *)
RECURSIVE RelaxAll(_, _, _, _, _, _, _, _)
RelaxAll(hd, opt, gl, cl, current, st, dirs, i) ==
    IF i > Len(dirs) THEN st
    ELSE CHOOSE r \in {RelaxAll(hd, opt, gl, cl, current, s, dirs, i + 1) :
                         s \in {Relax(hd, opt, gl, cl, current, st, dirs[i])}} : TRUE

(* Reconstruct with the walk stopped one cell early: start is left out *)
RECURSIVE Reconstruct_SkipStart(_, _, _, _)
Reconstruct_SkipStart(hd, cf, idx, path) ==
    IF cf[idx] = -1 THEN path
    ELSE Reconstruct_SkipStart(hd, cf, cf[idx], <<pointOf(hd, idx)>> \o path)

(* path.unshift while idx !== -1; idx = cameFrom[idx] *)
RECURSIVE Reconstruct(_, _, _, _)
Reconstruct(hd, cf, idx, path) ==
    IF idx = -1 THEN path
    ELSE Reconstruct(hd, cf, cf[idx], <<pointOf(hd, idx)>> \o path)

(* ------------------------------------------------- getSlopeAt / smoothPath *)
(* directions without the four diagonal entries *)
SlopeDirections_NoDiagonal ==
    <<[dx |-> -1, dy |-> 0], [dx |-> 1, dy |-> 0],
      [dx |-> 0, dy |-> -1], [dx |-> 0, dy |-> 1]>>

SlopeDirections ==
    <<[dx |-> -1, dy |-> 0], [dx |-> 1, dy |-> 0],
      [dx |-> 0, dy |-> -1], [dx |-> 0, dy |-> 1],
      [dx |-> -1, dy |-> -1], [dx |-> 1, dy |-> -1],
      [dx |-> -1, dy |-> 1], [dx |-> 1, dy |-> 1]>>

RECURSIVE SlopeFold(_, _, _, _)
SlopeFold(hd, p, i, maxSlope) ==
    IF i > Len(SlopeDirections) THEN maxSlope
    ELSE LET d == SlopeDirections[i]
             newX == p.x + d.dx
             newY == p.y + d.dy
         IN  IF newX >= 0 /\ newX < hd.width /\ newY >= 0 /\ newY < hd.height
             THEN LET slope == AtanMilliDeg(Abs(hd.data[p.y][p.x] - hd.data[newY][newX]),
                                            d.dx * d.dx + d.dy * d.dy)
                  IN  SlopeFold(hd, p, i + 1, Max2(maxSlope, slope))
             ELSE SlopeFold(hd, p, i + 1, maxSlope)

(* getSlopeAt answering for the nearest cell of the grid instead of 0 *)
getSlopeAt_Clamped(hd, p) ==
    SlopeFold(hd, Pt(Max2(0, IF p.x > hd.width - 1 THEN hd.width - 1 ELSE p.x),
                     Max2(0, IF p.y > hd.height - 1 THEN hd.height - 1 ELSE p.y)), 1, 0)

getSlopeAt(hd, p) == IF ~isValidPoint(hd, p) THEN 0 ELSE SlopeFold(hd, p, 1, 0)

(* The cells of heightData.data that getSlopeAt(p) reads: data[y][x] for the *)
(* centre, data[newY][newX] for each direction that passes the bounds test   *)
SlopeReads(hd, p) ==
    IF ~isValidPoint(hd, p) THEN {}
    ELSE {p} \cup
         {Pt(p.x + SlopeDirections[i].dx, p.y + SlopeDirections[i].dy) :
            i \in {j \in 1..Len(SlopeDirections) :
                        /\ p.x + SlopeDirections[j].dx >= 0
                        /\ p.x + SlopeDirections[j].dx < hd.width
                        /\ p.y + SlopeDirections[j].dy >= 0
                        /\ p.y + SlopeDirections[j].dy < hd.height}}

generateSlopeMap(hd) ==
    [y \in 0..(hd.height - 1) |-> [x \in 0..(hd.width - 1) |-> getSlopeAt(hd, Pt(x, y))]]

(* Math.round(num / den), den > 0: halves round towards +Infinity *)
Round(num, den) == (2 * num + den) \div (2 * den)

(* The cell sampled at step i of steps on the segment from -> to *)
SamplePoint(from, to, i, steps) ==
    Pt(Round(from.x * steps + (to.x - from.x) * i, steps),
       Round(from.y * steps + (to.y - from.y) * i, steps))

LineSteps(from, to) == CeilSqrt(DistSq(from, to))

hasDirectLineOfSight(hd, opt, from, to) ==
    LET steps == LineSteps(from, to)
    IN  \A i \in 1..(steps - 1) :
            LET s == SamplePoint(from, to, i, steps)
            IN  /\ isValidPoint(hd, s)
                /\ ~(getSlopeAt(hd, s) > opt.maxSlope * 1000)

RECURSIVE SmoothLoop(_, _, _, _, _)
SmoothLoop(hd, opt, path, i, smoothedPath) ==
    IF i > Len(path) - 1 THEN smoothedPath
    ELSE SmoothLoop(hd, opt, path, i + 1,
                    IF ~hasDirectLineOfSight(hd, opt, path[i - 1], path[i + 1])
                    THEN Append(smoothedPath, path[i])
                    ELSE smoothedPath)

(* smoothPath without the final push of the last waypoint *)
smoothPath_NoLastPush(hd, opt, path) ==
    IF Len(path) <= 2 THEN path
    ELSE SmoothLoop(hd, opt, path, 2, <<path[1]>>)

smoothPath(hd, opt, path) ==
    IF Len(path) <= 2 THEN path
    ELSE Append(SmoothLoop(hd, opt, path, 2, <<path[1]>>), path[Len(path)])

(* ------------------------------------------------------------------ state *)
Elevations == 0..MaxElev

HeightFields ==
    {[width |-> GridW, height |-> GridH, data |-> d] :
        d \in [0..(GridH - 1) -> [0..(GridW - 1) -> Elevations]]}

OptionChoices ==
    {[maxSlope |-> DefaultMaxSlope, diagonalMovement |-> dm,
      slopeWeight |-> DefaultSlopeWeight, distanceWeight |-> DefaultDistanceWeight] :
        dm \in BOOLEAN}

(* Arguments of findPath: every cell, and one point beyond each side *)
PointChoices(hd) ==
    Cells(hd) \cup {Pt(-1, 0), Pt(hd.width, 0), Pt(0, -1), Pt(0, hd.height)}

NoResult == [path |-> <<>>, cost |-> 0, success |-> FALSE, nodesExplored |-> 0]

Init ==
    /\ heightData \in HeightFields
    /\ options \in OptionChoices
    /\ pc = "idle"
    /\ start = Pt(0, 0)
    /\ goal = Pt(0, 0)
    /\ closed = <<>>
    /\ inOpen = <<>>
    /\ gScore = <<>>
    /\ cameFrom = <<>>
    /\ heap = <<>>
    /\ nodesExplored = 0
    /\ result = NoResult
    /\ smoothIn = <<>>
    /\ smoothed = <<>>
    /\ startOptions = <<>>
    /\ prev = <<>>
    /\ updates = <<>>
    /\ before = <<>>
    /\ slopeQuery = <<>>
    /\ slopeMap = <<>>
    /\ loaded = <<>>
    /\ rover = <<>>
    /\ froundUp \in BOOLEAN
    /\ manualMode = FALSE
    /\ pressedKeys = {}
    /\ clock = 0

(* BeginSearch with the closed array kept from the call before *)
BeginSearch_StaleClosed(s, g) ==
    /\ start' = s
    /\ goal' = g
    /\ startOptions' = <<options>>
    /\ UNCHANGED <<smoothIn, smoothed, updates, before, outputVars, rover, froundUp, inputVars>>
    /\ IF ~isValidPoint(heightData, s) \/ ~isValidPoint(heightData, g)
       THEN /\ result' = [path |-> <<>>, cost |-> 0, success |-> FALSE, nodesExplored |-> 0]
            /\ pc' = "done"
            /\ closed' = <<>>
            /\ inOpen' = <<>>
            /\ gScore' = <<>>
            /\ cameFrom' = <<>>
            /\ heap' = <<>>
            /\ nodesExplored' = 0
       ELSE LET total == heightData.width * heightData.height
                startIdx == indexOf(heightData, s.x, s.y)
                h0 == heuristic(options, s, g)
                startNode == [x |-> s.x, y |-> s.y, g |-> 0, h |-> h0, f |-> 0 + h0]
            IN  /\ closed' = IF closed = <<>> THEN [i \in 0..(total - 1) |-> 0] ELSE closed
                /\ inOpen' = [i \in 0..(total - 1) |-> IF i = startIdx THEN 1 ELSE 0]
                /\ gScore' = [i \in 0..(total - 1) |-> IF i = startIdx THEN 0 ELSE Infinity]
                /\ cameFrom' = [i \in 0..(total - 1) |-> -1]
                /\ heap' = heapPush(<<>>, startNode)
                /\ nodesExplored' = 0
                /\ result' = NoResult
                /\ pc' = "searching"
    /\ UNCHANGED <<heightData, options>>

(* BeginSearch with gScore kept as a field of the engine across calls *)
BeginSearch_StaleGScore(s, g) ==
    /\ start' = s
    /\ goal' = g
    /\ startOptions' = <<options>>
    /\ UNCHANGED <<smoothIn, smoothed, updates, before, outputVars, rover, froundUp, inputVars>>
    /\ IF ~isValidPoint(heightData, s) \/ ~isValidPoint(heightData, g)
       THEN /\ result' = [path |-> <<>>, cost |-> 0, success |-> FALSE, nodesExplored |-> 0]
            /\ pc' = "done"
            /\ closed' = <<>>
            /\ inOpen' = <<>>
            /\ gScore' = <<>>
            /\ cameFrom' = <<>>
            /\ heap' = <<>>
            /\ nodesExplored' = 0
       ELSE LET total == heightData.width * heightData.height
                startIdx == indexOf(heightData, s.x, s.y)
                h0 == heuristic(options, s, g)
                startNode == [x |-> s.x, y |-> s.y, g |-> 0, h |-> h0, f |-> 0 + h0]
            IN  /\ closed' = [i \in 0..(total - 1) |-> 0]
                /\ inOpen' = [i \in 0..(total - 1) |-> IF i = startIdx THEN 1 ELSE 0]
                /\ gScore' = IF gScore = <<>>
                             THEN [i \in 0..(total - 1) |-> IF i = startIdx THEN 0 ELSE Infinity]
                             ELSE [gScore EXCEPT ![startIdx] = 0]
                /\ cameFrom' = [i \in 0..(total - 1) |-> -1]
                /\ heap' = heapPush(<<>>, startNode)
                /\ nodesExplored' = 0
                /\ result' = NoResult
                /\ pc' = "searching"
    /\ UNCHANGED <<heightData, options>>

(* BeginSearch without cameFrom.fill(-1): the Int32Array keeps its zeros *)
BeginSearch_NoSentinel(s, g) ==
    /\ start' = s
    /\ goal' = g
    /\ startOptions' = <<options>>
    /\ UNCHANGED <<smoothIn, smoothed, updates, before, outputVars, rover, froundUp, inputVars>>
    /\ IF ~isValidPoint(heightData, s) \/ ~isValidPoint(heightData, g)
       THEN /\ result' = [path |-> <<>>, cost |-> 0, success |-> FALSE, nodesExplored |-> 0]
            /\ pc' = "done"
            /\ closed' = <<>>
            /\ inOpen' = <<>>
            /\ gScore' = <<>>
            /\ cameFrom' = <<>>
            /\ heap' = <<>>
            /\ nodesExplored' = 0
       ELSE LET total == heightData.width * heightData.height
                startIdx == indexOf(heightData, s.x, s.y)
                h0 == heuristic(options, s, g)
                startNode == [x |-> s.x, y |-> s.y, g |-> 0, h |-> h0, f |-> 0 + h0]
            IN  /\ closed' = [i \in 0..(total - 1) |-> 0]
                /\ inOpen' = [i \in 0..(total - 1) |-> IF i = startIdx THEN 1 ELSE 0]
                /\ gScore' = [i \in 0..(total - 1) |-> IF i = startIdx THEN 0 ELSE Infinity]
                /\ cameFrom' = [i \in 0..(total - 1) |-> 0]
                /\ heap' = heapPush(<<>>, startNode)
                /\ nodesExplored' = 0
                /\ result' = NoResult
                /\ pc' = "searching"
    /\ UNCHANGED <<heightData, options>>

(* findPath, up to the first test of the loop condition.  gScore is a       *)
(* Float32Array: the start's 0 and the fill value Infinity are stored as     *)
(* they are.                                                                 *)
BeginSearch(s, g) ==
    /\ start' = s
    /\ goal' = g
    /\ startOptions' = <<options>>
    /\ UNCHANGED <<smoothIn, smoothed, updates, before, outputVars, rover, froundUp, inputVars>>
    /\ IF ~isValidPoint(heightData, s) \/ ~isValidPoint(heightData, g)
       THEN /\ result' = [path |-> <<>>, cost |-> 0, success |-> FALSE, nodesExplored |-> 0]
            /\ pc' = "done"
            /\ closed' = <<>>
            /\ inOpen' = <<>>
            /\ gScore' = <<>>
            /\ cameFrom' = <<>>
            /\ heap' = <<>>
            /\ nodesExplored' = 0
       ELSE LET total == heightData.width * heightData.height
                startIdx == indexOf(heightData, s.x, s.y)
                h0 == heuristic(options, s, g)
                startNode == [x |-> s.x, y |-> s.y, g |-> 0, h |-> h0, f |-> 0 + h0]
            IN  /\ closed' = [i \in 0..(total - 1) |-> 0]
                /\ inOpen' = [i \in 0..(total - 1) |-> IF i = startIdx THEN 1 ELSE 0]
                /\ gScore' = [i \in 0..(total - 1) |-> IF i = startIdx THEN 0 ELSE Infinity]
                /\ cameFrom' = [i \in 0..(total - 1) |-> -1]
                /\ heap' = heapPush(<<>>, startNode)
                /\ nodesExplored' = 0
                /\ result' = NoResult
                /\ pc' = "searching"
    /\ UNCHANGED <<heightData, options>>

FindPath(s, g) ==
    /\ pc = "idle"
    /\ BeginSearch(s, g)
    /\ UNCHANGED prev

(* A second findPath call on the same engine with the arguments of the call *)
(* that has just returned; prev keeps the first call's result and config     *)
RepeatCall ==
    /\ pc = "done"
    /\ prev = <<>>
    /\ prev' = <<[result |-> result, options |-> startOptions[1]]>>
    /\ BeginSearch(start, goal)

(* One iteration of while (!heap.isEmpty()) *)
SearchStep ==
    /\ pc = "searching"
    /\ Len(heap) > 0
    /\ LET current == heap[1]
           popped  == heapPop(heap)
           cIdx    == indexOf(heightData, current.x, current.y)
           inOpen1 == [inOpen EXCEPT ![cIdx] = 0]
           closed1 == [closed EXCEPT ![cIdx] = 1]
       IN  /\ closed' = closed1
           /\ nodesExplored' = nodesExplored + 1
           /\ IF current.x = goal.x /\ current.y = goal.y
              THEN /\ result' = [path |-> Reconstruct(heightData, cameFrom, cIdx, <<>>),
                                 cost |-> current.g, success |-> TRUE,
                                 nodesExplored |-> nodesExplored + 1]
                   /\ pc' = "done"
                   /\ inOpen' = inOpen1
                   /\ heap' = popped
                   /\ UNCHANGED <<gScore, cameFrom>>
              ELSE \E st \in {RelaxAll(heightData, options, goal, closed1, current,
                                      [gScore |-> gScore, cameFrom |-> cameFrom,
                                       inOpen |-> inOpen1, heap |-> popped],
                                      Dirs(options), 1)} :
                       /\ gScore' = st.gScore
                       /\ cameFrom' = st.cameFrom
                       /\ inOpen' = st.inOpen
                       /\ heap' = st.heap
                       /\ UNCHANGED <<result, pc>>
    /\ UNCHANGED <<heightData, options, start, goal, smoothIn, smoothed,
                   historyVars, outputVars, rover, froundUp, inputVars>>

(* The loop ends with the frontier empty: the failure return *)
SearchFail ==
    /\ pc = "searching"
    /\ Len(heap) = 0
    /\ result' = [path |-> <<>>, cost |-> 0, success |-> FALSE, nodesExplored |-> nodesExplored]
    /\ pc' = "done"
    /\ UNCHANGED <<heightData, options, start, goal, searchVars, smoothIn, smoothed,
                   historyVars, outputVars, rover, froundUp, inputVars>>

(* smoothPath applied to the path findPath returned *)
SmoothPath ==
    /\ pc = "done"
    /\ result.success
    /\ smoothIn = <<>>
    /\ smoothIn' = result.path
    /\ smoothed' = smoothPath(heightData, options, result.path)
    /\ UNCHANGED <<heightData, options, pc, start, goal, searchVars, result,
                   historyVars, outputVars, rover, froundUp, inputVars>>

(* { ...defaults, ...newOptions }: the fields newOptions lacks fall back to *)
(* the constructor defaults instead of keeping their value                  *)
updateOptions_ResetOthers(opts, newOptions) ==
    [maxSlope         |-> OptionOr(newOptions, "maxSlope", DefaultMaxSlope),
     diagonalMovement |-> OptionOr(newOptions, "diagonalMovement", TRUE),
     slopeWeight      |-> OptionOr(newOptions, "slopeWeight", DefaultSlopeWeight),
     distanceWeight   |-> OptionOr(newOptions, "distanceWeight", DefaultDistanceWeight)]

(* this.options = { ...this.options, ...newOptions } *)
updateOptions(opts, newOptions) ==
    [maxSlope         |-> OptionOr(newOptions, "maxSlope", opts.maxSlope),
     diagonalMovement |-> OptionOr(newOptions, "diagonalMovement", opts.diagonalMovement),
     slopeWeight      |-> OptionOr(newOptions, "slopeWeight", opts.slopeWeight),
     distanceWeight   |-> OptionOr(newOptions, "distanceWeight", opts.distanceWeight)]

(* return { ...this.options } *)
getOptions(opts) ==
    [maxSlope |-> opts.maxSlope, diagonalMovement |-> opts.diagonalMovement,
     slopeWeight |-> opts.slopeWeight, distanceWeight |-> opts.distanceWeight]

MaxUpdates == 2

(* Arguments of updateOptions: one field, two fields, a value already set *)
PartialChoices ==
    {[diagonalMovement |-> FALSE],
     [maxSlope |-> 45, slopeWeight |-> 1],
     [maxSlope |-> DefaultMaxSlope]}

(* updateOptions called with the engine running the search: findPath would  *)
(* see the change in the middle of its loop                                 *)
UpdateOptions_DuringSearch(partial) ==
    /\ Len(updates) < MaxUpdates
    /\ options' = updateOptions(options, partial)
    /\ before' = <<options>>
    /\ updates' = Append(updates, partial)
    /\ UNCHANGED <<heightData, pc, start, goal, searchVars, result, smoothIn, smoothed,
                   startOptions, prev, outputVars, rover, froundUp, inputVars>>

(* A call of updateOptions.  findPath is synchronous (no await, no callback *)
(* between its first and last line), so a call can only run while no search *)
(* is on the stack.  updates is the list of arguments so far, before the    *)
(* config just before the latest call.                                      *)
UpdateOptions(partial) ==
    /\ pc = "idle"
    /\ Len(updates) < MaxUpdates
    /\ options' = updateOptions(options, partial)
    /\ before' = <<options>>
    /\ updates' = Append(updates, partial)
    /\ UNCHANGED <<heightData, pc, start, goal, searchVars, result, smoothIn, smoothed,
                   startOptions, prev, outputVars, rover, froundUp, inputVars>>

(* The caller takes the result; the call's locals are dropped *)
Return ==
    /\ pc = "done"
    /\ pc' = "idle"
    /\ start' = Pt(0, 0)
    /\ goal' = Pt(0, 0)
    /\ closed' = <<>>
    /\ inOpen' = <<>>
    /\ gScore' = <<>>
    /\ cameFrom' = <<>>
    /\ heap' = <<>>
    /\ nodesExplored' = 0
    /\ result' = NoResult
    /\ smoothIn' = <<>>
    /\ smoothed' = <<>>
    /\ startOptions' = <<>>
    /\ prev' = <<>>
    /\ UNCHANGED <<heightData, options, updates, before, outputVars, rover, froundUp, inputVars>>

Next ==
    \/ \E s \in PointChoices(heightData), g \in PointChoices(heightData) : FindPath(s, g)
    \/ SearchStep
    \/ SearchFail
    \/ SmoothPath
    \/ Return

Spec == Init /\ [][Next]_vars

(* findPath is synchronous: once entered, the loop runs its iterations and   *)
(* its return without waiting for anything                                   *)
(* Terrains with any first row and the other rows flat *)
TerminationFields ==
    {hd \in HeightFields :
        \A y \in 1..(GridH - 1) : \A x \in 0..(GridW - 1) : hd.data[y][x] = 0}

TerminationInit == Init /\ heightData \in TerminationFields

TerminationSpec ==
    TerminationInit /\ [][Next]_vars /\ WF_vars(SearchStep) /\ WF_vars(SearchFail)

(* ---------------------------------------- smoothPath on an arbitrary path *)
MaxPathLen == 3

GridCells == {Pt(x, y) : x \in 0..(GridW - 1), y \in 0..(GridH - 1)}

RECURSIVE PathsOfLen(_)
PathsOfLen(n) ==
    IF n = 0 THEN {<<>>}
    ELSE {Append(q, c) : q \in PathsOfLen(n - 1), c \in GridCells}

PathChoices == UNION {PathsOfLen(n) : n \in 0..MaxPathLen}

(* The engine as its constructor leaves it with no options given *)
SmoothInit ==
    /\ Init
    /\ options = [maxSlope |-> DefaultMaxSlope, diagonalMovement |-> TRUE,
                  slopeWeight |-> DefaultSlopeWeight,
                  distanceWeight |-> DefaultDistanceWeight]

(* smoothPath called by a client on a path of its own *)
SmoothAny(path) ==
    /\ pc = "idle"
    /\ pc' = "smoothed"
    /\ smoothIn' = path
    /\ smoothed' = smoothPath(heightData, options, path)
    /\ UNCHANGED <<heightData, options, start, goal, searchVars, result,
                   historyVars, outputVars, rover, froundUp, inputVars>>

SmoothNext == \E path \in PathChoices : SmoothAny(path)

SmoothSpec == SmoothInit /\ [][SmoothNext]_vars

(* ------------------------------------------- the two 5x5 scenario terrains *)
(* All elevations 0 *)
Flat5 == [width |-> 5, height |-> 5, data |-> [y \in 0..4 |-> [x \in 0..4 |-> 0]]]

(* Flat except for a spike of 100 units (200 half-units) at (2,2) *)
Spike5 ==
    [width |-> 5, height |-> 5,
     data |-> [y \in 0..4 |-> [x \in 0..4 |-> IF x = 2 /\ y = 2 THEN 200 ELSE 0]]]

(* maxSlope 30, diagonal moves, slopeWeight 2, distanceWeight 1: the values   *)
(* the constructor defaults to and the simulator passes                       *)
ScenarioOptions ==
    [maxSlope |-> DefaultMaxSlope, diagonalMovement |-> TRUE,
     slopeWeight |-> DefaultSlopeWeight, distanceWeight |-> DefaultDistanceWeight]

ScenarioInit ==
    /\ heightData \in {Flat5, Spike5}
    /\ options = ScenarioOptions
    /\ pc = "idle"
    /\ start = Pt(0, 0)
    /\ goal = Pt(0, 0)
    /\ closed = <<>>
    /\ inOpen = <<>>
    /\ gScore = <<>>
    /\ cameFrom = <<>>
    /\ heap = <<>>
    /\ nodesExplored = 0
    /\ result = NoResult
    /\ smoothIn = <<>>
    /\ smoothed = <<>>
    /\ startOptions = <<>>
    /\ prev = <<>>
    /\ updates = <<>>
    /\ before = <<>>
    /\ slopeQuery = <<>>
    /\ slopeMap = <<>>
    /\ loaded = <<>>
    /\ rover = <<>>
    /\ froundUp \in BOOLEAN
    /\ manualMode = FALSE
    /\ pressedKeys = {}
    /\ clock = 0

ScenarioNext ==
    \/ \E s \in PointChoices(heightData), g \in PointChoices(heightData) : FindPath(s, g)
    \/ SearchStep
    \/ SearchFail
    \/ Return
    \/ RepeatCall

ScenarioSpec == ScenarioInit /\ [][ScenarioNext]_vars

(* The engine with updateOptions calls between its searches *)
OptionsNext ==
    \/ ScenarioNext
    \/ \E partial \in PartialChoices : UpdateOptions(partial)

OptionsInit == ScenarioInit /\ heightData = Spike5

OptionsSpec == OptionsInit /\ [][OptionsNext]_vars

(* ------------------------------------------- getSlopeAt / generateSlopeMap *)
SlopeW == 3
SlopeH == 3
SlopeMaxElev == 1

(* Every grid of 1..SlopeW columns and 1..SlopeH rows, from the 1x1 grid to *)
(* one with a cell that has all 8 neighbours                                *)
SlopeFields ==
    UNION {{[width |-> w, height |-> h, data |-> d] :
                d \in [0..(h - 1) -> [0..(w - 1) -> 0..SlopeMaxElev]]} :
           w \in 1..SlopeW, h \in 1..SlopeH}

(* Arguments of getSlopeAt: every cell and the ring of points around the grid *)
SlopePointChoices(hd) == {Pt(x, y) : x \in (-1)..hd.width, y \in (-1)..hd.height}

SlopeInit ==
    /\ heightData \in SlopeFields
    /\ options = ScenarioOptions
    /\ pc = "idle"
    /\ start = Pt(0, 0)
    /\ goal = Pt(0, 0)
    /\ closed = <<>>
    /\ inOpen = <<>>
    /\ gScore = <<>>
    /\ cameFrom = <<>>
    /\ heap = <<>>
    /\ nodesExplored = 0
    /\ result = NoResult
    /\ smoothIn = <<>>
    /\ smoothed = <<>>
    /\ startOptions = <<>>
    /\ prev = <<>>
    /\ updates = <<>>
    /\ before = <<>>
    /\ slopeQuery = <<>>
    /\ slopeMap = <<>>
    /\ loaded = <<>>
    /\ rover = <<>>
    /\ froundUp \in BOOLEAN
    /\ manualMode = FALSE
    /\ pressedKeys = {}
    /\ clock = 0

GetSlopeAt(p) ==
    /\ slopeQuery' = <<[point |-> p, slope |-> getSlopeAt(heightData, p),
                        reads |-> SlopeReads(heightData, p)]>>
    /\ UNCHANGED <<heightData, options, pc, start, goal, searchVars, result,
                   smoothIn, smoothed, historyVars, slopeMap, loaded, rover, froundUp, inputVars>>

GenerateSlopeMap ==
    /\ slopeMap = <<>>
    /\ slopeMap' = <<generateSlopeMap(heightData)>>
    /\ UNCHANGED <<heightData, options, pc, start, goal, searchVars, result,
                   smoothIn, smoothed, historyVars, slopeQuery, loaded, rover, froundUp, inputVars>>

SlopeNext ==
    \/ \E p \in SlopePointChoices(heightData) : GetSlopeAt(p)
    \/ GenerateSlopeMap

SlopeSpec == SlopeInit /\ [][SlopeNext]_vars

(* --------------------------------------------- an engine built with maxSlope 0 *)
ZeroSlopeOptions ==
    {[maxSlope |-> 0, diagonalMovement |-> dm,
      slopeWeight |-> DefaultSlopeWeight, distanceWeight |-> DefaultDistanceWeight] :
        dm \in BOOLEAN}

(* new PathfindingEngine(heightData, { maxSlope: 0, ... }): 0 ?? 30 is 0 *)
ZeroSlopeInit ==
    /\ heightData \in HeightFields
    /\ \A y \in 0..(GridH - 1) : \A x \in 0..(GridW - 1) :
            heightData.data[y][x] \in {0, MaxElev} /\ (y > 0 => heightData.data[y][x] = 0)
    /\ options \in ZeroSlopeOptions
    /\ pc = "idle"
    /\ start = Pt(0, 0)
    /\ goal = Pt(0, 0)
    /\ closed = <<>>
    /\ inOpen = <<>>
    /\ gScore = <<>>
    /\ cameFrom = <<>>
    /\ heap = <<>>
    /\ nodesExplored = 0
    /\ result = NoResult
    /\ smoothIn = <<>>
    /\ smoothed = <<>>
    /\ startOptions = <<>>
    /\ prev = <<>>
    /\ updates = <<>>
    /\ before = <<>>
    /\ slopeQuery = <<>>
    /\ slopeMap = <<>>
    /\ loaded = <<>>
    /\ rover = <<>>
    /\ froundUp \in BOOLEAN
    /\ manualMode = FALSE
    /\ pressedKeys = {}
    /\ clock = 0

ZeroSlopeNext ==
    \/ \E s \in Cells(heightData), g \in Cells(heightData) : FindPath(s, g)
    \/ SearchStep
    \/ SearchFail
    \/ Return

ZeroSlopeSpec == ZeroSlopeInit /\ [][ZeroSlopeNext]_vars

(* ------------------------------------ several calls on one engine, in turn *)
(* Terrains with a flat second row and first-row cells at 0 or MaxElev *)
PurityFields ==
    {hd \in HeightFields :
        /\ \A x \in 0..(GridW - 1) : hd.data[0][x] \in {0, MaxElev}
        /\ \A y \in 1..(GridH - 1) : \A x \in 0..(GridW - 1) : hd.data[y][x] = 0}

PurityInit == Init /\ heightData \in PurityFields /\ options = ScenarioOptions

(* findPath(s, g) called on the engine whose previous call, with other      *)
(* arguments, has just returned; prev keeps that call's arguments and       *)
(* result, and the terrain and config as they were                          *)
NextCall(s, g) ==
    /\ pc = "done"
    /\ prev = <<>>
    /\ <<s, g>> # <<start, goal>>
    /\ prev' = <<[result |-> result, options |-> startOptions[1],
                  start |-> start, goal |-> goal,
                  heightData |-> heightData, again |-> FALSE]>>
    /\ BeginSearch(s, g)

(* The first call's arguments once more, after the call in between *)
CallAgain ==
    /\ pc = "done"
    /\ prev # <<>>
    /\ ~prev[1].again
    /\ prev' = <<[prev[1] EXCEPT !.again = TRUE]>>
    /\ BeginSearch(prev[1].start, prev[1].goal)

(* The other reads of the engine, made after the three searches *)
PurityReads ==
    /\ pc = "done"
    /\ prev # <<>>
    /\ prev[1].again
    /\ \/ SmoothPath
       \/ \E p \in SlopePointChoices(heightData) : GetSlopeAt(p)
       \/ GenerateSlopeMap

PurityNext ==
    \/ \E s \in PointChoices(heightData), g \in PointChoices(heightData) : FindPath(s, g)
    \/ SearchStep
    \/ SearchFail
    \/ \E s \in Cells(heightData), g \in Cells(heightData) : NextCall(s, g)
    \/ CallAgain
    \/ PurityReads

PuritySpec == PurityInit /\ [][PurityNext]_vars

(* -------------------------------------------------------------------- Rover *)
RoverTypes == {"standard", "scout", "heavy", "scientific"}

(* The presets the model uses: speed (units per second), maxSlope (degrees) *)
(* and energyCapacity                                                       *)
getRoverTypePresets(type) ==
    CASE type = "scout"      -> [speed |-> 12, maxSlope |-> 20, energyCapacity |-> 60]
      [] type = "heavy"      -> [speed |-> 4, maxSlope |-> 45, energyCapacity |-> 200]
      [] type = "scientific" -> [speed |-> 7, maxSlope |-> 25, energyCapacity |-> 120]
      [] OTHER               -> [speed |-> 8, maxSlope |-> 30, energyCapacity |-> 100]

(* new Rover(opts).  Positions are in sixteenths of a unit, energy in       *)
(* tenths; rotation counts quarter turns from +z towards +x.                *)
NewRover(opts) ==
    LET type    == OptionOr(opts, "type", "standard")
        presets == getRoverTypePresets(type)
    IN  [type |-> type,
         speed |-> OptionOr(opts, "speed", presets.speed),
         maxSlope |-> OptionOr(opts, "maxSlope", presets.maxSlope),
         position |-> [x |-> 0, z |-> 0],
         rotation |-> 0,
         isMoving |-> FALSE,
         currentPathIndex |-> 0,
         energy |-> OptionOr(opts, "energyCapacity", presets.energyCapacity) * 10,
         path |-> <<>>]

setPosition(r, x, z) == [r EXCEPT !.position = [x |-> x, z |-> z]]

setPath(r, path) == [r EXCEPT !.path = path, !.currentPathIndex = 0, !.isMoving = FALSE]

(* ---------------------------------------------------- PlanetaryRoverSimulator *)
(* Terrains that are flat but for the first two cells of the first row *)
SimFields ==
    {hd \in HeightFields :
        /\ \A x \in 2..(GridW - 1) : hd.data[0][x] = 0
        /\ \A y \in 1..(GridH - 1) : \A x \in 0..(GridW - 1) : hd.data[y][x] = 0}

(* spawnRover: a rover of the type the select element shows *)
spawnRover(type) == NewRover([type |-> type])

(* The state loadTerrain leaves: the engine built with maxSlope 30, the     *)
(* rover spawned and put on the centre cell.  The positions TerrainMesh     *)
(* turns into world coordinates are kept in grid units.                     *)
SimInit ==
    /\ Init
    /\ heightData \in SimFields
    /\ options = ScenarioOptions

SimLoaded(type) ==
    /\ pc = "idle"
    /\ rover = <<>>
    /\ rover' = <<setPosition(spawnRover(type), 16 * (heightData.width \div 2),
                              16 * (heightData.height \div 2))>>
    /\ UNCHANGED <<heightData, options, pc, start, goal, searchVars, result,
                   smoothIn, smoothed, historyVars, outputVars, froundUp, inputVars>>

(* The rover-type select changes: the old rover is dropped and a new one    *)
(* spawned.  The pathfinding engine is not touched.                         *)
SpawnRover(type) ==
    /\ pc = "idle"
    /\ rover # <<>>
    /\ rover' = <<spawnRover(type)>>
    /\ UNCHANGED <<heightData, options, pc, start, goal, searchVars, result,
                   smoothIn, smoothed, historyVars, outputVars, froundUp, inputVars>>

(* Find Path, from the button to the engine's call *)
SimFindPath(s, g) ==
    /\ rover # <<>>
    /\ FindPath(s, g)

(* Find Path, after the engine returned: a path found is handed to the      *)
(* rover by visualizePath                                                   *)
SimShowPath ==
    /\ pc = "done"
    /\ rover # <<>>
    /\ rover' = IF result.success THEN <<setPath(rover[1], result.path)>> ELSE rover
    /\ pc' = "idle"
    /\ start' = Pt(0, 0)
    /\ goal' = Pt(0, 0)
    /\ closed' = <<>>
    /\ inOpen' = <<>>
    /\ gScore' = <<>>
    /\ cameFrom' = <<>>
    /\ heap' = <<>>
    /\ nodesExplored' = 0
    /\ result' = NoResult
    /\ startOptions' = <<>>
    /\ UNCHANGED <<heightData, options, smoothIn, smoothed, prev, updates, before,
                   outputVars, froundUp, inputVars>>

SimNext ==
    \/ \E type \in RoverTypes : SimLoaded(type)
    \/ \E type \in RoverTypes : SpawnRover(type)
    \/ \E s \in Cells(heightData), g \in Cells(heightData) : SimFindPath(s, g)
    \/ SearchStep
    \/ SearchFail
    \/ SimShowPath

SimSpec == SimInit /\ [][SimNext]_vars

(* ------------------------------------------------- the rover on its path *)
(* Waypoints are whole units; positions are sixteenths of a unit and a     *)
(* frame's deltaTime is a number of sixteenths of a second, so speed *     *)
(* deltaTime is a whole number of sixteenths.  The paths of this model run *)
(* along +z: the normalised direction is a unit axis vector and the        *)
(* rotation a quarter turn.                                                *)
MaxWaypoints == 3

DeltaChoices == {1, 2}

ManualSpeed == 8

Sgn(n) == IF n > 0 THEN 1 ELSE IF n < 0 THEN -1 ELSE 0

(* Math.sin and Math.cos of a quarter turn *)
SinQ(q) == CASE q = 1 -> 1 [] q = 3 -> -1 [] OTHER -> 0

CosQ(q) == CASE q = 0 -> 1 [] q = 2 -> -1 [] OTHER -> 0

(* Math.atan2(x, z) of a unit axis vector, in quarter turns *)
Atan2Q(x, z) == IF x > 0 THEN 1 ELSE IF x < 0 THEN 3 ELSE IF z < 0 THEN 2 ELSE 0

startMovement(r) ==
    IF Len(r.path) = 0 THEN r
    ELSE [r EXCEPT !.isMoving = TRUE, !.currentPathIndex = 0,
                   !.position = [x |-> 16 * r.path[1].x, z |-> 16 * r.path[1].y]]

stopMovement(r) == [r EXCEPT !.isMoving = FALSE]

(* distance * 0.1 + heightDiff * 0.5, in tenths, between waypoints on one   *)
(* axis-parallel line of a terrain whose height function is 0               *)
calculateEnergyCost(from, to) == Abs(to.x - from.x) + Abs(to.y - from.y)

(* Rover.update(deltaTime) *)
update(r, dt) ==
    IF ~r.isMoving \/ Len(r.path) = 0 THEN r
    ELSE IF r.currentPathIndex < Len(r.path) - 1
    THEN LET currentPoint == r.path[r.currentPathIndex + 1]
             nextPoint    == r.path[r.currentPathIndex + 2]
             dirX == Sgn(nextPoint.x - currentPoint.x)
             dirZ == Sgn(nextPoint.y - currentPoint.y)
             moveDistance == r.speed * dt
             dx == 16 * nextPoint.x - r.position.x
             dz == 16 * nextPoint.y - r.position.z
             turned == [r EXCEPT !.rotation = Atan2Q(dirX, dirZ)]
         IN  IF dx * dx + dz * dz <= moveDistance * moveDistance
             THEN LET energy == Max2(0, r.energy - calculateEnergyCost(currentPoint, nextPoint))
                  IN  [turned EXCEPT !.currentPathIndex = r.currentPathIndex + 1,
                                     !.position = [x |-> 16 * nextPoint.x, z |-> 16 * nextPoint.y],
                                     !.energy = energy,
                                     !.isMoving = (energy > 0)]
             ELSE [turned EXCEPT !.position = [x |-> r.position.x + dirX * moveDistance,
                                               z |-> r.position.z + dirZ * moveDistance]]
    ELSE [r EXCEPT !.isMoving = FALSE]

(* updateManualMovement: getState() copies the state shallowly, so the     *)
(* position read for 's' is the one 'w' has just set; the rotation is the  *)
(* number read on entry                                                    *)
updateManualMovement(r, manual, keys, dt) ==
    IF ~manual \/ keys = {} THEN r
    ELSE LET moveSpeed == ManualSpeed * dt
             rot == r.rotation
             r1 == IF "w" \in keys
                   THEN setPosition(r, r.position.x + SinQ(rot) * moveSpeed,
                                       r.position.z + CosQ(rot) * moveSpeed)
                   ELSE r
         IN  IF "s" \in keys
             THEN setPosition(r1, r1.position.x - SinQ(rot) * moveSpeed,
                                  r1.position.z - CosQ(rot) * moveSpeed)
             ELSE r1

roverIdle == <<heightData, options, pc, start, goal, searchVars, result,
               smoothIn, smoothed, historyVars, outputVars, froundUp>>

(* How far, in units, a parked rover is driven off the path by hand *)
MaxDrift == 1

InReach(r) ==
    /\ r.position.z >= -16 * MaxDrift
    /\ r.position.z <= 16 * (MaxWaypoints - 1 + MaxDrift)

(* One frame of animate: the manual step, then the rover's update if it is *)
(* moving.  A parked rover is driven by hand within reach of the path.     *)
Animate(dt) ==
    /\ rover # <<>>
    /\ LET r1 == updateManualMovement(rover[1], manualMode, pressedKeys, dt)
       IN  /\ r1.isMoving \/ InReach(r1)
           /\ rover' = <<IF r1.isMoving THEN update(r1, dt) ELSE r1>>
    /\ clock' = 1 - clock
    /\ UNCHANGED <<roverIdle, manualMode, pressedKeys>>

(* The Animate Rover button; it is disabled while the rover is on its way  *)
AnimateRover ==
    /\ rover # <<>>
    /\ Len(rover[1].path) > 0
    /\ ~rover[1].isMoving
    /\ rover' = <<startMovement(rover[1])>>
    /\ UNCHANGED <<roverIdle, inputVars>>

Keys == {"w", "s", " "}

onKeyDown(key) ==
    /\ key \notin pressedKeys
    /\ pressedKeys' = pressedKeys \cup {key}
    /\ rover' = IF manualMode /\ rover # <<>> /\ key = " "
                THEN <<stopMovement(rover[1])>>
                ELSE rover
    /\ UNCHANGED <<roverIdle, manualMode, clock>>

onKeyUp(key) ==
    /\ key \in pressedKeys
    /\ pressedKeys' = pressedKeys \ {key}
    /\ UNCHANGED <<roverIdle, rover, manualMode, clock>>

(* The user ticks or clears the manual-mode checkbox *)
ToggleManualMode ==
    /\ manualMode' = ~manualMode
    /\ UNCHANGED <<roverIdle, rover, pressedKeys, clock>>

(* Rovers at least as fast as the manual step, built with a small energy   *)
(* capacity so that repeated runs use it up                                 *)
MaxEnergyCapacity == 1

RoverChoices ==
    {NewRover([type |-> t, energyCapacity |-> e]) :
        t \in {"standard", "scout"}, e \in 0..MaxEnergyCapacity}

RoverPaths == {[i \in 1..n |-> Pt(0, i - 1)] : n \in 1..MaxWaypoints}

RoverInit ==
    /\ heightData = Flat5
    /\ options = ScenarioOptions
    /\ pc = "idle"
    /\ start = Pt(0, 0)
    /\ goal = Pt(0, 0)
    /\ closed = <<>>
    /\ inOpen = <<>>
    /\ gScore = <<>>
    /\ cameFrom = <<>>
    /\ heap = <<>>
    /\ nodesExplored = 0
    /\ result = NoResult
    /\ smoothIn = <<>>
    /\ smoothed = <<>>
    /\ startOptions = <<>>
    /\ prev = <<>>
    /\ updates = <<>>
    /\ before = <<>>
    /\ slopeQuery = <<>>
    /\ slopeMap = <<>>
    /\ loaded = <<>>
    /\ \E r \in RoverChoices, path \in RoverPaths : rover = <<setPath(r, path)>>
    /\ froundUp = FALSE
    /\ manualMode = FALSE
    /\ pressedKeys = {}
    /\ clock = 0

RoverNext ==
    \/ AnimateRover
    \/ \E dt \in DeltaChoices : Animate(dt)
    \/ \E key \in Keys : onKeyDown(key)
    \/ \E key \in Keys : onKeyUp(key)
    \/ ToggleManualMode

(* requestAnimationFrame keeps calling animate *)
RoverSpec == RoverInit /\ [][RoverNext]_vars /\ WF_vars(\E dt \in DeltaChoices : Animate(dt))

(* ------------------------------------------------------------ TerrainLoader *)
(* Heights of the loader are kept in thousandths; scale and offset are whole  *)
(* numbers.                                                                   *)
RawW == 2
RawH == 2

RawValues == {0, 1000, 2000}

(* Sum of the Perlin octaves of one cell *)
NoiseValues == {-500, 0, 500}

GridsOver(vals) ==
    UNION {[0..(h - 1) -> [0..(w - 1) -> vals]] : w \in 1..RawW, h \in 1..RawH}

RawGrids == GridsOver(RawValues)

(* noise(0, 0) = 0: x = y = 0 makes every grad term 0, and cell (0,0) samples *)
(* (0,0) in every octave                                                      *)
NoiseGrids == {n \in GridsOver(NoiseValues) : n[0][0] = 0}

LoadOptionChoices ==
    {[normalize |-> n, scale |-> s, offset |-> o] :
        n \in BOOLEAN, s \in {1, 12}, o \in {0, 3}}

RowsOf(grid) == Cardinality(DOMAIN grid)

ColsOf(grid) == Cardinality(DOMAIN grid[0])

GridValues(grid) ==
    {grid[y][x] : y \in 0..(RowsOf(grid) - 1), x \in 0..(ColsOf(grid) - 1)}

(* the Math.min / Math.max loops *)
GridMin(grid) == CHOOSE m \in GridValues(grid) : \A v \in GridValues(grid) : m <= v

GridMax(grid) == CHOOSE m \in GridValues(grid) : \A v \in GridValues(grid) : m >= v

processHeightArray(rawData, opts) ==
    LET normalize == OptionOr(opts, "normalize", TRUE)
        scale     == OptionOr(opts, "scale", 1)
        offset    == OptionOr(opts, "offset", 0)
        height    == RowsOf(rawData)
        width     == ColsOf(rawData)
        minHeight == GridMin(rawData)
        maxHeight == GridMax(rawData)
        value(y, x) ==
            LET v == rawData[y][x]
                n == IF normalize /\ maxHeight > minHeight
                     THEN ((v - minHeight) * 1000) \div (maxHeight - minHeight)
                     ELSE v
            IN  n * scale + offset * 1000
    IN  [width |-> width,
         height |-> height,
         data |-> [y \in 0..(height - 1) |-> [x \in 0..(width - 1) |-> value(y, x)]],
         minHeight |-> IF normalize THEN 0 ELSE minHeight * scale + offset * 1000,
         maxHeight |-> IF normalize THEN (scale + offset) * 1000
                       ELSE maxHeight * scale + offset * 1000]

(* noise[y][x] is the octave sum heightValue of cell (x, y) *)
generateProceduralTerrain(width, height, noise, opts) ==
    LET normalize == OptionOr(opts, "normalize", TRUE)
        scale     == OptionOr(opts, "scale", 1)
        offset    == OptionOr(opts, "offset", 0)
        data == [y \in 0..(height - 1) |->
                    [x \in 0..(width - 1) |-> noise[y][x] * scale + offset * 1000]]
    IN  processHeightArray(data, [normalize |-> normalize])

LoaderInit == ScenarioInit /\ heightData = Flat5

ProcessHeightArray(raw, opts) ==
    /\ loaded = <<>>
    /\ loaded' = <<[fn |-> "processHeightArray", input |-> raw, options |-> opts,
                    out |-> processHeightArray(raw, opts)]>>
    /\ UNCHANGED <<heightData, options, pc, start, goal, searchVars, result,
                   smoothIn, smoothed, historyVars, slopeQuery, slopeMap, rover, froundUp, inputVars>>

GenerateProceduralTerrain(noise, opts) ==
    /\ loaded = <<>>
    /\ loaded' = <<[fn |-> "generateProceduralTerrain", input |-> noise, options |-> opts,
                    out |-> generateProceduralTerrain(ColsOf(noise), RowsOf(noise),
                                                      noise, opts)]>>
    /\ UNCHANGED <<heightData, options, pc, start, goal, searchVars, result,
                   smoothIn, smoothed, historyVars, slopeQuery, slopeMap, rover, froundUp, inputVars>>

LoaderNext ==
    \/ \E raw \in RawGrids, opts \in LoadOptionChoices : ProcessHeightArray(raw, opts)
    \/ \E noise \in NoiseGrids, opts \in LoadOptionChoices :
            GenerateProceduralTerrain(noise, opts)

LoaderSpec == LoaderInit /\ [][LoaderNext]_vars

(***************************************************************************)
(* Notions the claims are stated in.  They follow the claims' wording      *)
(* (absolute elevation difference), not the code.                          *)
(***************************************************************************)
InGrid(hd, p) == p.x \in 0..(hd.width - 1) /\ p.y \in 0..(hd.height - 1)

(* b is a grid neighbour of a under the configured connectivity *)
IsStep(opt, a, b) == DistSq(a, b) = 1 \/ (opt.diagonalMovement /\ DistSq(a, b) = 2)

(* atan(|elevation(b) - elevation(a)| / planarDistance(a, b)) in degrees *)
SlopeBetween(hd, a, b) == AtanMilliDeg(Abs(hd.data[b.y][b.x] - hd.data[a.y][a.x]), DistSq(a, b))

TooSteep(hd, opt, a, b) == SlopeBetween(hd, a, b) > opt.maxSlope * 1000

(* distance * distanceWeight + (slope / maxSlope) * slopeWeight *)
EdgeCost(hd, opt, a, b) ==
    getDistance(a, b) * 1000 * opt.distanceWeight
    + (SlopeBetween(hd, a, b) * 1000 * opt.slopeWeight) \div opt.maxSlope

SetMin(S) == CHOOSE m \in S : \A n \in S : m <= n

(* Cheapest admissible cost from s to every cell (by linear index), by       *)
(* rounds of relaxation of every cell in turn                                *)
RelaxCell(hd, opt, dist, idx) ==
    LET c == pointOf(hd, idx)
        via == {dist[indexOf(hd, b.x, b.y)] + EdgeCost(hd, opt, b, c) :
                   b \in {b \in Cells(hd) : /\ IsStep(opt, b, c)
                                            /\ dist[indexOf(hd, b.x, b.y)] < Infinity
                                            /\ ~TooSteep(hd, opt, b, c)}}
    IN  [dist EXCEPT ![idx] = SetMin({dist[idx]} \cup via)]

RECURSIVE CheapestFrom(_, _, _, _, _)
CheapestFrom(hd, opt, dist, idx, rounds) ==
    IF rounds = 0 THEN dist
    ELSE IF idx >= hd.width * hd.height
         THEN CheapestFrom(hd, opt, dist, 0, rounds - 1)
         ELSE CheapestFrom(hd, opt, RelaxCell(hd, opt, dist, idx), idx + 1, rounds)

MinAdmissibleCost(hd, opt, s, g) ==
    CheapestFrom(hd, opt,
                 [i \in 0..(hd.width * hd.height - 1) |->
                     IF i = indexOf(hd, s.x, s.y) THEN 0 ELSE Infinity],
                 0, hd.width * hd.height - 1)[indexOf(hd, g.x, g.y)]

Returned == pc = "done"

Succeeded == pc = "done" /\ result.success

(* C1: whenever findPath succeeds, the returned cost is the minimum total    *)
(* edge cost over all start-to-goal paths that cross no edge steeper than    *)
(* maxSlope.                                                                 *)
C1_CostIsMinimal ==
    Succeeded => result.cost = MinAdmissibleCost(heightData, options, start, goal)

(* C2: no two consecutive cells of a returned path are joined by an edge     *)
(* whose slope (absolute elevation difference) exceeds maxSlope, uphill or   *)
(* downhill.                                                                 *)
C2_NoSteepEdgeOnPath ==
    Succeeded =>
        \A i \in 1..(Len(result.path) - 1) :
            ~TooSteep(heightData, options, result.path[i], result.path[i + 1])

(* C3: when every path from start to goal crosses a too-steep edge, findPath *)
(* returns success = false with an empty path.                               *)
C3_UnreachableFails ==
    (/\ Returned
     /\ InGrid(heightData, start) /\ InGrid(heightData, goal)
     /\ MinAdmissibleCost(heightData, options, start, goal) >= Infinity)
    => (~result.success /\ result.path = <<>>)

(* C4: the slope the pathfinder computes for an edge A->B equals the slope   *)
(* it computes for B->A, and equals the loader's calculateSlope of the two   *)
(* elevations.                                                               *)
C4_SlopeSymmetric ==
    \A a \in Cells(heightData), b \in Cells(heightData) :
        DistSq(a, b) \in {1, 2} =>
            /\ calculateSlope(heightData, a, b) = calculateSlope(heightData, b, a)
            /\ calculateSlope(heightData, a, b)
                 = LoaderCalculateSlope(heightData.data[a.y][a.x],
                                        heightData.data[b.y][b.x], DistSq(a, b))

(* C5: on every passable edge the cost is at least distance * distanceWeight *)
(* and the heuristic is consistent: h(A) <= cost(A,B) + h(B) for every goal. *)
C5_HeuristicConsistent ==
    \A a \in Cells(heightData), b \in Cells(heightData) :
        (IsStep(options, a, b)
         /\ isFinite(getMovementCost(heightData, options, a, b)))
        => /\ getMovementCost(heightData, options, a, b)
                >= getDistance(a, b) * 1000 * options.distanceWeight
           /\ \A g \in Cells(heightData) :
                heuristic(options, a, g)
                    <= getMovementCost(heightData, options, a, b) + heuristic(options, b, g)

(* C8: findPath with a start or a goal outside the grid returns success =    *)
(* false, an empty path and nodesExplored = 0, and explores no cell: the     *)
(* search is entered only with both points inside the grid.                  *)
C8_OutOfBoundsRejected ==
    /\ (Returned /\ (~InGrid(heightData, start) \/ ~InGrid(heightData, goal)))
        => /\ result = [path |-> <<>>, cost |-> 0, success |-> FALSE, nodesExplored |-> 0]
           /\ nodesExplored = 0
           /\ heap = <<>> /\ closed = <<>>
    /\ pc = "searching" => (InGrid(heightData, start) /\ InGrid(heightData, goal))

C8_Witness ==
    /\ Returned
    /\ ~InGrid(heightData, start)
    /\ InGrid(heightData, goal)
    /\ ~result.success

(* C9: findPath(c, c) for an in-bounds cell c returns success = true, the    *)
(* path [c] and cost 0.                                                      *)
C9_SelfPath ==
    (Returned /\ start = goal /\ InGrid(heightData, start))
    => /\ result.success
       /\ result.path = <<start>>
       /\ result.cost = 0

C9_Witness ==
    /\ Returned /\ start = goal /\ InGrid(heightData, start)
    /\ result.path = <<start>>
    /\ \E c \in Cells(heightData) : heightData.data[c.y][c.x] # heightData.data[start.y][start.x]

(* C10: a returned path runs from start to goal inclusive, stays in bounds,  *)
(* repeats no cell, and every two consecutive cells are grid neighbours:     *)
(* orthogonal only when diagonalMovement is false.                           *)
C10_PathWellFormed ==
    Succeeded =>
        LET path == result.path
        IN  /\ Len(path) >= 1
            /\ path[1] = start
            /\ path[Len(path)] = goal
            /\ \A i \in 1..Len(path) : InGrid(heightData, path[i])
            /\ \A i \in 1..Len(path), j \in 1..Len(path) : path[i] = path[j] => i = j
            /\ \A i \in 1..(Len(path) - 1) : IsStep(options, path[i], path[i + 1])

C10_Witness ==
    /\ Succeeded
    /\ ~options.diagonalMovement
    /\ Len(result.path) >= 4

(* Every cell sampled between two waypoints is in bounds and no steeper than *)
(* maxSlope                                                                  *)
SegmentSafe(hd, opt, from, to) ==
    \A i \in 1..(LineSteps(from, to) - 1) :
        /\ InGrid(hd, SamplePoint(from, to, i, LineSteps(from, to)))
        /\ getSlopeAt(hd, SamplePoint(from, to, i, LineSteps(from, to))) <= opt.maxSlope * 1000

(* C6: in the output of smoothPath on a path findPath returned, every cell   *)
(* sampled along the segment between two consecutive retained waypoints is   *)
(* in bounds and has getSlopeAt <= maxSlope.                                 *)
C6_SmoothedSegmentsSafe ==
    (Succeeded /\ smoothIn # <<>>) =>
        \A k \in 1..(Len(smoothed) - 1) :
            SegmentSafe(heightData, options, smoothed[k], smoothed[k + 1])

RECURSIVE IsSubsequence(_, _)
IsSubsequence(sub, seq) ==
    IF sub = <<>> THEN TRUE
    ELSE IF seq = <<>> THEN FALSE
    ELSE IF sub[1] = seq[1] THEN IsSubsequence(Tail(sub), Tail(seq))
    ELSE IsSubsequence(sub, Tail(seq))

(* C7: for every non-empty input path, the output of smoothPath begins with  *)
(* the input's first waypoint, ends with its last waypoint, and is an        *)
(* order-preserving subsequence of the input.                                *)
C7_SmoothKeepsEnds ==
    (pc = "smoothed" /\ smoothIn # <<>>) =>
        /\ smoothed # <<>>
        /\ smoothed[1] = smoothIn[1]
        /\ smoothed[Len(smoothed)] = smoothIn[Len(smoothIn)]
        /\ IsSubsequence(smoothed, smoothIn)

C7_Witness ==
    /\ pc = "smoothed"
    /\ Len(smoothIn) = 3
    /\ Len(smoothed) = 2
    /\ smoothIn[1] # smoothIn[3]

(* C11: on the flat 5x5 grid with maxSlope 30, distanceWeight 1,              *)
(* slopeWeight 2 and diagonal moves, findPath((0,0),(4,4)) succeeds with the  *)
(* 5-cell diagonal path and the cost of 4 diagonal steps.                     *)
C11_FlatDiagonal ==
    (/\ Returned
     /\ heightData = Flat5
     /\ startOptions = <<ScenarioOptions>>
     /\ start = Pt(0, 0) /\ goal = Pt(4, 4))
    => /\ result.success
       /\ result.path = <<Pt(0, 0), Pt(1, 1), Pt(2, 2), Pt(3, 3), Pt(4, 4)>>
       /\ result.cost = 4 * SqrtMilli(2) * 1000

C11_Witness ==
    /\ Returned
    /\ heightData = Flat5
    /\ startOptions = <<ScenarioOptions>>
    /\ start = Pt(0, 0) /\ goal = Pt(4, 4)
    /\ result.success
    /\ Len(result.path) = 5

(* C12: on the 5x5 grid with the spike at (2,2) and maxSlope 30, findPath     *)
(* between two distinct cells other than (2,2) succeeds with a path that      *)
(* avoids (2,2), and findPath from or to (2,2) returns success = false.       *)
C12_SpikeExcluded ==
    (/\ Returned
     /\ heightData = Spike5
     /\ startOptions # <<>> /\ startOptions[1].maxSlope = 30
     /\ InGrid(heightData, start) /\ InGrid(heightData, goal)
     /\ start # goal)
    => IF start = Pt(2, 2) \/ goal = Pt(2, 2)
       THEN ~result.success
       ELSE /\ result.success
            /\ \A i \in 1..Len(result.path) : result.path[i] # Pt(2, 2)

(* C13: findPath is deterministic: a second call with the same terrain,      *)
(* start, goal and config returns the same path, cost, success and           *)
(* nodesExplored as the first, ties between equal f included.                *)
C13_Deterministic ==
    (Returned /\ prev # <<>> /\ prev[1].options = startOptions[1])
        => /\ result.path = prev[1].result.path
           /\ result.cost = prev[1].result.cost
           /\ result.success = prev[1].result.success
           /\ result.nodesExplored = prev[1].result.nodesExplored

(* a repeated call on the flat grid, where many frontier entries tie on f *)
C13_Witness ==
    /\ Returned /\ prev # <<>> /\ prev[1].options = startOptions[1]
    /\ heightData = Flat5
    /\ result.success /\ Len(result.path) >= 4
    /\ start.x # goal.x /\ start.y # goal.y

(* C14: every HeightData the loader produces has height rows of width        *)
(* entries, and minHeight <= every sample <= maxHeight.                      *)
C14_LoaderWellFormed ==
    loaded # <<>> =>
        LET o == loaded[1].out
        IN  /\ DOMAIN o.data = 0..(o.height - 1)
            /\ \A y \in DOMAIN o.data : DOMAIN o.data[y] = 0..(o.width - 1)
            /\ \A y \in DOMAIN o.data : \A x \in DOMAIN o.data[y] :
                    o.minHeight <= o.data[y][x] /\ o.data[y][x] <= o.maxHeight

(* C15: the minHeight/maxHeight recorded by generateProceduralTerrain are 0  *)
(* and scale + offset when normalize is true, and the raw extrema scaled and  *)
(* offset when it is false.                                                   *)
C15_RecordedExtrema ==
    (loaded # <<>> /\ loaded[1].fn = "generateProceduralTerrain") =>
        LET l == loaded[1]
            scale == l.options.scale
            offset == l.options.offset
        IN  IF l.options.normalize
            THEN /\ l.out.minHeight = 0
                 /\ l.out.maxHeight = (scale + offset) * 1000
            ELSE /\ l.out.minHeight = GridMin(l.input) * scale + offset * 1000
                 /\ l.out.maxHeight = GridMax(l.input) * scale + offset * 1000

(* C16: with normalize = true the generator remaps the noise sums to [0,1]   *)
(* first and scales and offsets afterwards, so for a non-flat noise grid and  *)
(* scale > 0 the smallest sample is offset and the largest scale + offset.    *)
C16_NormalizeThenScale ==
    (/\ loaded # <<>> /\ loaded[1].fn = "generateProceduralTerrain"
     /\ loaded[1].options.normalize
     /\ GridMax(loaded[1].input) > GridMin(loaded[1].input)
     /\ loaded[1].options.scale > 0) =>
        LET l == loaded[1]
            lo == GridMin(l.input)
            hi == GridMax(l.input)
        IN  /\ GridMin(l.out.data) = l.options.offset * 1000
            /\ GridMax(l.out.data) = (l.options.scale + l.options.offset) * 1000
            /\ \A y \in DOMAIN l.input : \A x \in DOMAIN l.input[y] :
                    l.out.data[y][x] =
                        (((l.input[y][x] - lo) * 1000) \div (hi - lo)) * l.options.scale
                            + l.options.offset * 1000

OptionFields == {"maxSlope", "diagonalMovement", "slopeWeight", "distanceWeight"}

(* The value of field f in the latest partial that has it, else default *)
RECURSIVE LastSupplied(_, _, _)
LastSupplied(hist, f, default) ==
    IF hist = <<>> THEN default
    ELSE IF f \in DOMAIN hist[Len(hist)] THEN hist[Len(hist)][f]
    ELSE LastSupplied(SubSeq(hist, 1, Len(hist) - 1), f, default)

(* C17: updateOptions(partial) sets exactly the fields of partial and keeps  *)
(* every other field; after any sequence of calls getOptions returns, field  *)
(* by field, the most recently supplied value, or the constructor's value.   *)
C17_UpdateFrame ==
    /\ updates # <<>> =>
            \A f \in OptionFields :
                IF f \in DOMAIN updates[Len(updates)]
                THEN options[f] = updates[Len(updates)][f]
                ELSE options[f] = before[1][f]
    /\ DOMAIN getOptions(options) = OptionFields
    /\ \A f \in OptionFields :
            getOptions(options)[f] = LastSupplied(updates, f, ScenarioOptions[f])

(* two calls: maxSlope and slopeWeight survive the second, which sets another field *)
C17_Witness ==
    /\ updates = <<[maxSlope |-> 45, slopeWeight |-> 1], [diagonalMovement |-> FALSE]>>
    /\ options = [maxSlope |-> 45, diagonalMovement |-> FALSE,
                  slopeWeight |-> 1, distanceWeight |-> DefaultDistanceWeight]
    /\ before = <<[maxSlope |-> 45, diagonalMovement |-> TRUE,
                   slopeWeight |-> 1, distanceWeight |-> DefaultDistanceWeight]>>

C19_SlopeQueryInBounds ==
    slopeQuery # <<>> =>
        /\ ~InGrid(heightData, slopeQuery[1].point) => slopeQuery[1].slope = 0
        /\ \A c \in slopeQuery[1].reads : InGrid(heightData, c)

(* a query one step outside a grid whose border cell has a sloping neighbour *)
C19_Witness ==
    /\ slopeQuery # <<>>
    /\ slopeQuery[1].point = Pt(-1, 0)
    /\ heightData.width >= 2
    /\ heightData.data[0][0] # heightData.data[0][1]

(* The cells among the 8 grid neighbours of c *)
NeighboursOf(hd, c) ==
    {n \in Cells(hd) : n # c /\ Abs(n.x - c.x) <= 1 /\ Abs(n.y - c.y) <= 1}

SetMax(S) == CHOOSE m \in S : \A n \in S : m >= n

(* C20: generateSlopeMap returns height rows of width entries, and entry     *)
(* (x,y) is the maximum slope between (x,y) and its in-bounds neighbours     *)
(* among the 8 around it, 0 when it has none.                                *)
C20_SlopeMapIsMaxOverNeighbours ==
    slopeMap # <<>> =>
        /\ DOMAIN slopeMap[1] = 0..(heightData.height - 1)
        /\ \A y \in 0..(heightData.height - 1) :
                /\ DOMAIN slopeMap[1][y] = 0..(heightData.width - 1)
                /\ \A x \in 0..(heightData.width - 1) :
                        slopeMap[1][y][x] =
                            SetMax({0} \cup {SlopeBetween(heightData, Pt(x, y), n) :
                                                n \in NeighboursOf(heightData, Pt(x, y))})

(* a map whose centre entry, a cell with all 8 neighbours, comes from one *)
(* diagonal neighbour alone                                               *)
C20_Witness ==
    /\ slopeMap # <<>>
    /\ heightData.width = 3 /\ heightData.height = 3
    /\ \A n \in NeighboursOf(heightData, Pt(1, 1)) :
            (heightData.data[n.y][n.x] # heightData.data[1][1]) <=> (n = Pt(2, 2))
    /\ slopeMap[1][1][1] > 0

(* Cells reachable from the cells of S over steps that are not too steep *)
RECURSIVE ReachableFrom(_, _, _)
ReachableFrom(hd, opt, S) ==
    LET more == {b \in Cells(hd) : \E a \in S : IsStep(opt, a, b) /\ ~TooSteep(hd, opt, a, b)}
    IN  IF more \subseteq S THEN S ELSE ReachableFrom(hd, opt, S \cup more)

(* C21: a search between in-bounds cells that empties the frontier returns   *)
(* success = false, an empty path, cost 0 and a non-zero nodesExplored, the  *)
(* number of cells reachable from start over passable edges, start included. *)
C21_FailureCountsReachable ==
    (Returned /\ InGrid(heightData, start) /\ InGrid(heightData, goal) /\ ~result.success)
    => /\ result.path = <<>>
       /\ result.cost = 0
       /\ result.nodesExplored # 0
       /\ result.nodesExplored = Cardinality(ReachableFrom(heightData, options, {start}))

(* C22: findPath, getSlopeAt, generateSlopeMap and smoothPath change neither *)
(* the HeightData nor the config, and the result of a findPath call is the   *)
(* same whether or not another findPath call ran on the engine before it.    *)
C22_ReadsArePure ==
    /\ prev # <<>> => (heightData = prev[1].heightData /\ options = prev[1].options)
    /\ (Returned /\ prev # <<>> /\ prev[1].again) =>
            /\ start = prev[1].start /\ goal = prev[1].goal
            /\ result = prev[1].result

(* a call repeated after a different call, then smoothed, with the slope map *)
(* generated too                                                             *)
C22_Witness ==
    /\ Returned /\ prev # <<>> /\ prev[1].again
    /\ result.success /\ Len(result.path) >= 3
    /\ smoothIn = result.path
    /\ slopeMap # <<>>
    /\ slopeQuery # <<>>
    /\ \E c \in Cells(heightData) : heightData.data[c.y][c.x] # 0

(* C23: for each rover type, a path computed by Find Path after that rover   *)
(* is spawned has no edge steeper than the rover's own maxSlope: the         *)
(* engine's maxSlope equals the rover's whenever a path is computed.         *)
C23_RoverBoundsRoute ==
    (Succeeded /\ rover # <<>>) =>
        /\ startOptions[1].maxSlope = rover[1].maxSlope
        /\ \A i \in 1..(Len(result.path) - 1) :
                SlopeBetween(heightData, result.path[i], result.path[i + 1])
                    <= rover[1].maxSlope * 1000

IsFlat(hd) == \A c \in Cells(hd) : hd.data[c.y][c.x] = hd.data[0][0]

(* C24: with maxSlope = 0 every edge between cells of equal elevation is     *)
(* passable with a finite cost and every other edge is impassable, so on an  *)
(* all-flat grid findPath between two distinct in-bounds cells succeeds.     *)
C24_ZeroSlopeKeepsFlatEdges ==
    /\ \A a \in Cells(heightData), b \in Cells(heightData) :
            IsStep(options, a, b) =>
                (isFinite(getMovementCost(heightData, options, a, b))
                    <=> heightData.data[a.y][a.x] = heightData.data[b.y][b.x])
    /\ (Returned /\ IsFlat(heightData) /\ start # goal) => result.success

(* The cells whose closed flag is set *)
ClosedCells == {i \in DOMAIN closed : closed[i] = 1}

(* The cells that have an entry in the frontier *)
HeapCells == {indexOf(heightData, heap[k].x, heap[k].y) : k \in 1..Len(heap)}

(* C25: during a findPath run a closed cell is never revisited: from the     *)
(* pop that sets its closed flag on, its gScore and cameFrom keep their      *)
(* values and it has no entry in the frontier, so the cell popped next is    *)
(* never a closed one and nodesExplored, the number of closed cells, is at   *)
(* most width * height.                                                      *)
C25_ClosedNeverRevisited ==
    [][pc = "searching" =>
        /\ ClosedCells \cap HeapCells = {}
        /\ nodesExplored = Cardinality(ClosedCells)
        /\ nodesExplored <= heightData.width * heightData.height
        /\ pc' # "idle" =>
            /\ nodesExplored' <= heightData.width * heightData.height
            /\ \A i \in ClosedCells :
                /\ closed'[i] = 1
                /\ gScore'[i] = gScore[i]
                /\ cameFrom'[i] = cameFrom[i]
                /\ inOpen'[i] = 0
                /\ \A k \in 1..Len(heap') : indexOf(heightData, heap'[k].x, heap'[k].y) # i]_vars

(* A search in which a closed cell could be reached at a lower cost through  *)
(* a cell closed after it, and is left as it was                             *)
C25_Witness ==
    /\ pc = "searching"
    /\ \E a \in ClosedCells, b \in ClosedCells :
        LET pa == pointOf(heightData, a)
            pb == pointOf(heightData, b)
        IN  /\ IsStep(options, pa, pb)
            /\ isFinite(getMovementCost(heightData, options, pa, pb))
            /\ gScore[a] + getMovementCost(heightData, options, pa, pb) < gScore[b] - 2

(* The binary-heap order on the frontier's array: no entry compares below    *)
(* its parent                                                                *)
HeapOrdered(data) ==
    \A i \in 1..(Len(data) - 1) :
        compare(data[i + 1], data[((i - 1) \div 2) + 1]) >= 0

EntriesOf(i) == {k \in 1..Len(heap) : indexOf(heightData, heap[k].x, heap[k].y) = i}

(* C27: in every state of a findPath run the frontier holds exactly one      *)
(* entry for each cell whose inOpen flag is 1 and none for any other cell,   *)
(* no cell is both inOpen and closed, and each entry's g equals the gScore   *)
(* of its cell.                                                              *)
C27_FrontierMatchesFlags ==
    pc = "searching" =>
        \A i \in DOMAIN inOpen :
            /\ Cardinality(EntriesOf(i)) = inOpen[i]
            /\ ~(inOpen[i] = 1 /\ closed[i] = 1)
            /\ \A k \in EntriesOf(i) : heap[k].g = gScore[i]

(* The cameFrom walk from cell idx: the cells visited before the -1          *)
(* sentinel, or before steps walk steps are used up                          *)
RECURSIVE WalkCells(_, _, _)
WalkCells(cf, idx, steps) ==
    IF idx = -1 \/ steps = 0 THEN {}
    ELSE {idx} \cup WalkCells(cf, cf[idx], steps - 1)

RECURSIVE WalkEnds(_, _, _)
WalkEnds(cf, idx, steps) ==
    IF idx = -1 THEN TRUE
    ELSE IF steps = 0 THEN FALSE
    ELSE WalkEnds(cf, cf[idx], steps - 1)

(* C28: findPath always terminates: a search that has been entered returns,  *)
(* it pops at most width * height entries, and from every cell the cameFrom  *)
(* walk reaches the -1 sentinel within width * height steps, passing         *)
(* through start when the cell has been reached.                             *)
C28_Terminates ==
    /\ [](pc \in {"searching", "done"} =>
            LET total == heightData.width * heightData.height
            IN  /\ nodesExplored <= total
                /\ \A i \in DOMAIN cameFrom :
                    /\ WalkEnds(cameFrom, i, total)
                    /\ gScore[i] < Infinity =>
                         indexOf(heightData, start.x, start.y) \in WalkCells(cameFrom, i, total))
    /\ (pc = "searching" ~> pc = "done")

(* A search that returned after popping every cell of the grid, with a      *)
(* path of three cells or more                                               *)
C28_Witness ==
    /\ Succeeded
    /\ nodesExplored = heightData.width * heightData.height
    /\ Len(result.path) >= 3

(* The sum of getMovementCost over the first n edges of path, added in the   *)
(* order the search added them                                               *)
RECURSIVE PathCost(_, _, _, _)
PathCost(hd, opt, path, n) ==
    IF n = 0 THEN 0
    ELSE PathCost(hd, opt, path, n - 1) + getMovementCost(hd, opt, path[n], path[n + 1])

(* C29: whenever findPath returns success = true every edge of the returned  *)
(* path has a finite cost, the returned cost is the sum of getMovementCost   *)
(* over the path's consecutive cells, and it equals the gScore recorded for  *)
(* the goal.                                                                 *)
C29_CostIsPathCost ==
    Succeeded =>
        /\ \A i \in 1..(Len(result.path) - 1) :
                isFinite(getMovementCost(heightData, startOptions[1],
                                         result.path[i], result.path[i + 1]))
        /\ result.cost = PathCost(heightData, startOptions[1], result.path,
                                  Len(result.path) - 1)
        /\ result.cost = gScore[indexOf(heightData, goal.x, goal.y)]

Moving == rover # <<>> /\ rover[1].isMoving

(* C30: the rover follows the path to its end: after startMovement on a      *)
(* non-empty path the animation frames eventually set isMoving to false,    *)
(* and over a frame currentPathIndex never decreases and never exceeds      *)
(* path.length - 1, also with manual W/S steps between the updates.         *)
C30_RoverReachesEnd ==
    /\ [][clock' # clock =>
            /\ rover'[1].currentPathIndex >= rover[1].currentPathIndex
            /\ rover'[1].currentPathIndex <= Len(rover'[1].path) - 1]_vars
    /\ (Moving ~> ~Moving)

====
